---- MODULE Spec2Model ----
(***************************************************************************)
(* Model of the CaratBridge secret finder: the monitor endpoint (three     *)
(* versions of its POST handler live in the repository: route.ts,          *)
(* part_000 and part_001), the lead store it uses (lib/db) and the         *)
(* authentication middleware.                                              *)
(*                                                                         *)
(* Time is counted in minutes.  Hashtags and the WATCH_TAGS environment    *)
(* value are sequences of one-character strings.                           *)
(***************************************************************************)
EXTENDS Integers, Sequences, FiniteSets, TLC

\* ------------------------------------------------------------------ bounds
MaxItems == 2          \* most items one external-source call returns
MaxPathLen == 3        \* most characters after a path's leading slash

\* --------------------------------------------------------------- constants
Now0 == 10000          \* an instant, in minutes since the epoch
WindowDaily == 26      \* route.ts: hours
WindowAdHoc == 48      \* part_000, part_001: hours
batchSize == 10        \* route.ts: leads per slice in sendDiscordAlert

NaN == -999999999      \* the number NaN (no arithmetic is ever done on it)

Handlers == {"route", "part_000", "part_001"}
ScanIds == {1, 2}      \* two requests may be in flight at once

Tags == {<<"a">>, <<"b">>}
WatchTagsValues == {<<>>, <<"b", ",", " ", "a">>}

\* The posts the external source knows: an id and a timestamp field.
Posts ==
  { [id |-> 1, timestamp |-> [kind |-> "undefined"]],
    [id |-> 2, timestamp |-> [kind |-> "iso", t |-> Now0 - 26 * 60]] }

\* The instants new Date() may answer while a tag's items are processed: post 2
\* is then 26 h or 26 h 1 min old.
Instants == {Now0, Now0 + 1}

ItemLists == UNION { [1..n -> Posts] : n \in 0..MaxItems }

\* Posts of known age at Now0: 47 h, 30 h, 50 h, exactly 48 h, exactly 26 h,
\* and one dated five minutes after Now0.
AgedPosts ==
  { [id |-> 3, timestamp |-> [kind |-> "iso", t |-> Now0 - 47 * 60]],
    [id |-> 4, timestamp |-> [kind |-> "iso", t |-> Now0 - 30 * 60]],
    [id |-> 5, timestamp |-> [kind |-> "iso", t |-> Now0 - 50 * 60]],
    [id |-> 6, timestamp |-> [kind |-> "iso", t |-> Now0 - 48 * 60]],
    [id |-> 7, timestamp |-> [kind |-> "iso", t |-> Now0 - 26 * 60]],
    [id |-> 8, timestamp |-> [kind |-> "iso", t |-> Now0 + 5]] }

\* What the external source may hold for a tag: aged posts, each at most once,
\* in any order.
Feeds ==
  { f \in UNION { [1..n -> AgedPosts] : n \in 0..(MaxItems + 1) } :
      \A i, j \in 1..Len(f) : f[i] = f[j] => i = j }

VARIABLES db, env, scan, handed, sent, reportedNew, returned, gate, feed

vars == <<db, env, scan, handed, sent, reportedNew, returned, gate, feed>>

\* ------------------------------------------------------- JavaScript values
\* new Date(x).getTime(): NaN for undefined or an unparseable string, 0 for null
DateGetTime(ts) ==
  IF ts.kind = "iso" THEN ts.t
  ELSE IF ts.kind = "null" THEN 0
  ELSE NaN

\* !isoDate
Falsy(ts) == ts.kind \in {"undefined", "null"}

JsSub(a, b) == IF a = NaN \/ b = NaN THEN NaN ELSE a - b
JsGt(a, b) == a # NaN /\ b # NaN /\ a > b
JsLt(a, b) == a # NaN /\ b # NaN /\ a < b
JsFloorDiv(a, b) == IF a = NaN THEN NaN ELSE a \div b

\* ------------------------------------------------------------- getTimeAgo
getTimeAgo(isoDate, clock) ==
  IF Falsy(isoDate) THEN [label |-> "Unknown"]
  ELSE LET diffMins == JsSub(clock, DateGetTime(isoDate))
           diffHours == JsFloorDiv(diffMins, 60)
           diffDays == JsFloorDiv(diffHours, 24)
       IN IF JsLt(diffMins, 60) THEN [label |-> "m ago", n |-> diffMins]
          ELSE IF JsLt(diffHours, 24) THEN [label |-> "h ago", n |-> diffHours]
          ELSE [label |-> "d ago", n |-> diffDays]

\* ------------------------------------------------------ per-handler policy
windowHoursDaily(h) == WindowDaily

windowHours(h) == IF h = "route" THEN WindowDaily ELSE WindowAdHoc
checksRunning(h) == h \in {"route", "part_000"}
sortsItems(h) == h \in {"route", "part_001"}
readsWatchTags(h) == h = "part_001"
pausesAfterSend(h) == h = "route"

\* ------------------------------------------------------------- items.sort
RECURSIVE InsertDesc(_, _)
InsertDesc(sorted, item) ==
  IF sorted = <<>> THEN <<item>>
  ELSE IF DateGetTime(item.timestamp) > DateGetTime(Head(sorted).timestamp)
       THEN <<item>> \o sorted
       ELSE <<Head(sorted)>> \o InsertDesc(Tail(sorted), item)

RECURSIVE StableSortDesc(_)
StableSortDesc(items) ==
  IF items = <<>> THEN <<>>
  ELSE InsertDesc(StableSortDesc(SubSeq(items, 1, Len(items) - 1)), items[Len(items)])

Reorderings(items) ==
  { [i \in 1..Len(items) |-> items[p[i]]] : p \in Permutations(1..Len(items)) }

\* The orders items.sort may leave: the comparator answers NaN when either
\* timestamp is not a date, and the order is then implementation-defined.
SortNewestFirst(items) ==
  IF \E i \in 1..Len(items) : DateGetTime(items[i].timestamp) = NaN
  THEN Reorderings(items)
  ELSE {StableSortDesc(items)}

SortedBy(h, items) == IF sortsItems(h) THEN SortNewestFirst(items) ELSE {items}

\* ------------------------------------------------- items.map(...).filter()
LeadId(itemId) == <<"post", itemId>>

TooOldAtWindow(item, clock, window) ==
  LET diff == JsSub(clock, DateGetTime(item.timestamp))
  IN diff # NaN /\ diff >= window * 60

\* diffHours > window, with diffHours = minutes / 60
TooOld(item, clock, window) ==
  JsGt(JsSub(clock, DateGetTime(item.timestamp)), window * 60)

ExtractLead(item, tag, clock) ==
  [id |-> LeadId(item.id),
   businessType |-> <<"#">> \o tag,
   postAge |-> getTimeAgo(item.timestamp, clock)]

RECURSIVE ExtractLeads(_, _, _, _)
ExtractLeads(items, tag, clock, window) ==
  IF items = <<>> THEN <<>>
  ELSE LET rest == ExtractLeads(Tail(items), tag, clock, window)
       IN IF TooOld(Head(items), clock, window) THEN rest
          ELSE <<ExtractLead(Head(items), tag, clock)>> \o rest

\* ------------------------------------------------------------------ lib/db
DefaultDb == [leads |-> {}, monitoredTags |-> <<>>, isRunning |-> FALSE]

getDb(d) == d

HasLead(leads, id) == \E l \in leads : l.id = id

RECURSIVE addLeadsToDb(_, _)
addLeadsToDb(d, candidates) ==
  IF candidates = <<>> THEN [db |-> d, new |-> <<>>]
  ELSE LET c == Head(candidates)
           fresh == ~HasLead(d.leads, c.id)
           d1 == IF fresh THEN [d EXCEPT !.leads = @ \cup {c}] ELSE d
           r == addLeadsToDb(d1, Tail(candidates))
       IN [db |-> r.db, new |-> IF fresh THEN <<c>> \o r.new ELSE r.new]

HasTag(tags, tag) == \E i \in 1..Len(tags) : tags[i] = tag

addTag(d, tag) ==
  IF HasTag(d.monitoredTags, tag) THEN d
  ELSE [d EXCEPT !.monitoredTags = Append(@, tag)]

removeTag(d, tag) ==
  [d EXCEPT !.monitoredTags = SelectSeq(@, LAMBDA t : t # tag)]

setRunningStatus(d, status) == [d EXCEPT !.isRunning = status]

\* ------------------------------------------- rawEnvTags.split(',').map(trim)
RECURSIVE Split(_)
Split(s) ==
  IF \A i \in 1..Len(s) : s[i] # ","
  THEN <<s>>
  ELSE LET k == CHOOSE i \in 1..Len(s) : s[i] = "," /\ \A j \in 1..(i - 1) : s[j] # ","
       IN <<SubSeq(s, 1, k - 1)>> \o Split(SubSeq(s, k + 1, Len(s)))

RECURSIVE Trim(_)
Trim(s) ==
  IF s = <<>> THEN s
  ELSE IF Head(s) = " " THEN Trim(Tail(s))
  ELSE IF s[Len(s)] = " " THEN Trim(SubSeq(s, 1, Len(s) - 1))
  ELSE s

TrimAll(parts) == [i \in 1..Len(parts) |-> Trim(parts[i])]

\* The tag list of a scan.
TagsToScan(h, d, rawEnvTags) ==
  IF readsWatchTags(h)
  THEN IF rawEnvTags # <<>> THEN TrimAll(Split(rawEnvTags))
       ELSE IF Len(d.monitoredTags) > 0 THEN d.monitoredTags
       ELSE <<>>
  ELSE d.monitoredTags

\* -------------------------------------------------------------- middleware
LoginPath == <<"/", "l", "o", "g", "i", "n">>
HomePathAtLogin == <<"/", "l", "o", "g", "i", "n">>

HomePath == <<"/">>
ApiPrefix == <<"/", "a", "p", "i", "/">>

\* the route of the monitor handler
MonitorPath == ApiPrefix \o <<"m", "o", "n", "i", "t", "o", "r">>

\* the session_token cookie: none, an empty value, a token jwtVerify rejects,
\* a token it accepts
Tokens == {"absent", "empty", "invalid", "valid"}

PathChars == {"/", ".", "a", "p", "i"}
NamedPaths ==
  { LoginPath,
    LoginPath \o <<"/">>,
    LoginPath \o <<".", "a">>,
    <<"/", "l", "o", "g", "i">>,
    ApiPrefix,
    MonitorPath,
    ApiPrefix \o <<"a", ".", "p">>,
    <<"/", "d", "a", "s", "h", "b", "o", "a", "r", "d">>,
    <<"/", "f", "a", "v", "i", "c", "o", "n", ".", "i", "c", "o">> }
Paths ==
  NamedPaths \cup
  { <<"/">> \o p : p \in UNION { [1..n -> PathChars] : n \in 0..MaxPathLen } }

\* pathname.includes('.')
Includes(path, ch) == \E i \in 1..Len(path) : path[i] = ch

\* pathname.startsWith(prefix)
StartsWith(path, prefix) ==
  /\ Len(path) >= Len(prefix)
  /\ SubSeq(path, 1, Len(prefix)) = prefix

VerifiedIfPresent(token) == token \notin {"absent", "empty"}

\* if (token) { try { await jwtVerify(...); verified = true } catch { ... } }
Verified(token) ==
  IF token \in {"absent", "empty"} THEN FALSE
  ELSE token = "valid"

Redirect(path) == [kind |-> "redirect", to |-> path]
PassOn == [kind |-> "next", to |-> <<>>]

middlewareWithoutApiBranch(token, pathname) ==
  LET isLoginPage == pathname = LoginPath
      verified == Verified(token)
  IN IF isLoginPage /\ verified THEN Redirect(HomePath)
     ELSE IF ~isLoginPage /\ ~verified
     THEN IF Includes(pathname, ".") THEN PassOn
          ELSE Redirect(LoginPath)
     ELSE PassOn

middleware(token, pathname) ==
  LET isLoginPage == pathname = LoginPath
      verified == Verified(token)
  IN IF isLoginPage /\ verified THEN Redirect(HomePath)
     ELSE IF ~isLoginPage /\ ~verified
     THEN IF Includes(pathname, ".") THEN PassOn
          ELSE IF StartsWith(pathname, ApiPrefix) THEN PassOn
          ELSE Redirect(LoginPath)
     ELSE PassOn

NoRequest == [token |-> "absent", path |-> <<>>, decision |-> [kind |-> "none", to |-> <<>>]]

\* --------------------------------------------------------------- responses
Json(success, message, error, newLeads, status) ==
  [success |-> success, message |-> message, error |-> error,
   newLeads |-> newLeads, status |-> status]

NoResponse == Json("none", "", "", -1, 0)
Started == Json("true", "Started", "", -1, 200)
Stopped == Json("true", "Stopped", "", -1, 200)
Success == Json("true", "", "", -1, 200)
Document == Json("none", "document", "", -1, 200)
InvalidAction == Json("none", "", "Invalid Action", -1, 200)
ServerError == Json("none", "", "body is not JSON", -1, 500)
MissingToken == Json("none", "", "Missing APIFY_TOKEN", -1, 200)
Paused == Json("false", "Paused", "", -1, 200)
NoTagsFound == Json("false", "No tags found.", "", -1, 200)
ScanResult(totalNewLeads) == Json("true", "", "", totalNewLeads, 200)

\* ------------------------------------------------- the requests but scan
\* the body of a request: its action and its tag (NoTag: absent or empty)
NoTag == <<>>
Body(action, tag) == [action |-> action, tag |-> tag]
Bodies == [action : {"start", "stop", "add", "remove", "load", "other"}, tag : Tags \cup {NoTag}]

\* the bodies no branch of the handler takes
RejectedBodies ==
  { b \in Bodies : b.action = "other" \/ (b.action \in {"add", "remove"} /\ b.tag = NoTag) }

Reply(d, resp) == [db |-> d, resp |-> resp]

HandleAddStarts(body, d) ==
  CASE body.action = "start" -> Reply(setRunningStatus(d, TRUE), Started)
    [] body.action = "stop" -> Reply(setRunningStatus(d, FALSE), Stopped)
    [] body.action = "add" /\ body.tag # NoTag ->
         Reply(setRunningStatus(addTag(d, body.tag), TRUE), Success)
    [] body.action = "remove" /\ body.tag # NoTag -> Reply(removeTag(d, body.tag), Success)
    [] body.action = "load" -> Reply(d, Document)
    [] OTHER -> Reply(d, InvalidAction)

HandleUncheckedTag(body, d) ==
  CASE body.action = "start" -> Reply(setRunningStatus(d, TRUE), Started)
    [] body.action = "stop" -> Reply(setRunningStatus(d, FALSE), Stopped)
    [] body.action = "add" -> Reply(addTag(d, body.tag), Success)
    [] body.action = "remove" -> Reply(removeTag(d, body.tag), Success)
    [] body.action = "load" -> Reply(getDb(d), Document)
    [] OTHER -> Reply(d, InvalidAction)

\* the branches of POST before the scanner, and its last line
Handle(body, d) ==
  CASE body.action = "start" -> Reply(setRunningStatus(d, TRUE), Started)
    [] body.action = "stop" -> Reply(setRunningStatus(d, FALSE), Stopped)
    [] body.action = "add" /\ body.tag # NoTag -> Reply(addTag(d, body.tag), Success)
    [] body.action = "remove" /\ body.tag # NoTag -> Reply(removeTag(d, body.tag), Success)
    [] body.action = "load" -> Reply(getDb(d), Document)
    [] OTHER -> Reply(d, InvalidAction)

\* the catch of POST: the body could not be read
OnThrow(d) == Reply(d, ServerError)

\* ------------------------------------------------------ one scan invocation
Idle ==
  [pc |-> "idle", handler |-> "route", tags |-> <<>>, ti |-> 0, total |-> 0,
   found |-> <<>>, batch |-> <<>>, i |-> 0, resp |-> NoResponse,
   calls |-> 0, inserted |-> 0, refused |-> FALSE, failed |-> 0, sendFailed |-> FALSE,
   closed |-> FALSE]

\* What the handler does between reading the body and its first await.
\* "closed" records that the running flag was off and force was not set.
Entered(h, force, d) == [Idle EXCEPT !.handler = h, !.closed = (~d.isRunning /\ ~force)]

\* from getDb() to the first actor call
PastCredential(h, force, d, e) ==
  LET base == Entered(h, force, d)
      tagsToScan == TagsToScan(h, d, e.WATCH_TAGS)
  IN IF checksRunning(h) /\ ~d.isRunning /\ ~force
     THEN [base EXCEPT !.pc = "done", !.resp = Paused]
     ELSE IF readsWatchTags(h) /\ Len(tagsToScan) = 0
     THEN [base EXCEPT !.pc = "done", !.resp = NoTagsFound]
     ELSE IF Len(tagsToScan) = 0
     THEN [base EXCEPT !.pc = "done", !.resp = ScanResult(0)]
     ELSE [base EXCEPT !.pc = "fetch", !.tags = tagsToScan, !.ti = 1]

ScanEntryUnchecked(h, force, d, e) == PastCredential(h, force, d, e)

ScanEntry(h, force, d, e) ==
  IF ~e.APIFY_TOKEN
  THEN [Entered(h, force, d) EXCEPT !.pc = "done", !.resp = MissingToken]
  ELSE PastCredential(h, force, d, e)

NextTagStays(l) == [l EXCEPT !.pc = "pause", !.found = <<>>, !.batch = <<>>, !.i = 0]

\* The loop moves to the next tag, or the handler answers.
NextTag(l) ==
  IF l.ti < Len(l.tags)
  THEN [l EXCEPT !.pc = "fetch", !.ti = @ + 1, !.found = <<>>, !.batch = <<>>, !.i = 0]
  ELSE [l EXCEPT !.pc = "done", !.found = <<>>, !.batch = <<>>, !.i = 0,
                 !.resp = ScanResult(l.total)]

TotalAfterOverwrite(total, newLeadsFound) == Len(newLeadsFound)

\* totalNewLeads += newLeadsFound.length, at the end of the tag's try block
TotalAfter(total, newLeadsFound) == total + Len(newLeadsFound)

EndOfTag(l) == NextTag([l EXCEPT !.total = TotalAfter(@, l.found)])

AfterFailureAbort(l) == [l EXCEPT !.pc = "done", !.resp = ServerError]

\* the tag's catch block: log, and on to the next tag
AfterFailure(l) == NextTag(l)

NotifierInvokedWithoutWebhook(newLeadsFound, webhook) == Len(newLeadsFound) > 0

\* if (newLeadsFound.length > 0) if (DISCORD_WEBHOOK) await sendDiscordAlert(...)
NotifierInvoked(newLeadsFound, webhook) == Len(newLeadsFound) > 0 /\ webhook

NotifierArgumentAll(newLeadsFound, leads) == leads

\* the list handed to sendDiscordAlert
NotifierArgument(newLeadsFound, leads) == newLeadsFound

\* ------------------------------------------------------- sendDiscordAlert
\* route.ts walks the list in slices of batchSize; the others walk it whole.
RECURSIVE Batches(_, _)
Batches(leads, size) ==
  IF Len(leads) <= size THEN <<leads>>
  ELSE <<SubSeq(leads, 1, size)>> \o Batches(SubSeq(leads, size + 1, Len(leads)), size)

RECURSIVE Flatten(_)
Flatten(lists) == IF lists = <<>> THEN <<>> ELSE Head(lists) \o Flatten(Tail(lists))

SendOrder(h, leads) ==
  IF h = "route" THEN Flatten(Batches(leads, batchSize)) ELSE leads

AfterAttemptUnlessFailed(l) ==
  IF l.sendFailed THEN [l EXCEPT !.pc = "done", !.resp = ServerError]
  ELSE IF l.i < Len(l.batch) THEN [l EXCEPT !.pc = "send", !.i = @ + 1]
  ELSE NextTag([l EXCEPT !.total = TotalAfter(@, l.found)])

\* the next lead of the list, or the notifier returns and the tag ends
AfterAttempt(l) ==
  IF l.i < Len(l.batch) THEN [l EXCEPT !.pc = "send", !.i = @ + 1] ELSE EndOfTag(l)

LeadIds == { LeadId(p.id) : p \in Posts }
AgedLeadIds == { LeadId(p.id) : p \in AgedPosts }
CountOf(leads, id) == Cardinality({ k \in 1..Len(leads) : leads[k].id = id })

\* ----------------------------------------------------------------- actions
Init ==
  /\ db = DefaultDb
  /\ env \in [APIFY_TOKEN : BOOLEAN, DISCORD_WEBHOOK : BOOLEAN,
              WATCH_TAGS : WatchTagsValues]
  /\ scan = [s \in ScanIds |-> Idle]
  /\ handed = [id \in LeadIds |-> 0]
  /\ sent = [id \in LeadIds |-> 0]
  /\ reportedNew = 0
  /\ returned = 0
  /\ gate = NoRequest
  /\ feed = <<>>

\* A handler that has returned hands its response over before the event loop
\* runs any other callback.
NoneAnswering == \A s \in ScanIds : scan[s].pc # "done"

Quiet == NoneAnswering /\ UNCHANGED <<env, scan, handed, sent, reportedNew, returned, gate, feed>>

Start ==
  /\ db' = Handle(Body("start", NoTag), db).db
  /\ Quiet

StopAndAbort ==
  /\ db' = Handle(Body("stop", NoTag), db).db
  /\ NoneAnswering
  /\ scan' = [s \in ScanIds |->
                IF scan[s].pc \in {"fetch", "send", "pause"}
                THEN [scan[s] EXCEPT !.pc = "done", !.resp = Paused]
                ELSE scan[s]]
  /\ UNCHANGED <<env, handed, sent, reportedNew, returned, gate, feed>>

Stop ==
  /\ db' = Handle(Body("stop", NoTag), db).db
  /\ Quiet

Add(tag) ==
  /\ db' = Handle(Body("add", tag), db).db
  /\ Quiet

Remove(tag) ==
  /\ db' = Handle(Body("remove", tag), db).db
  /\ Quiet

Load ==
  /\ db' = Handle(Body("load", NoTag), db).db
  /\ Quiet

\* an unknown action, or add / remove without a tag
Invalid ==
  /\ \E body \in RejectedBodies : db' = Handle(body, db).db
  /\ Quiet

\* request.json() throws
BadBody ==
  /\ db' = OnThrow(db).db
  /\ Quiet

Scan(s, h, force) ==
  /\ NoneAnswering
  /\ scan[s].pc = "idle"
  /\ scan' = [scan EXCEPT ![s] = ScanEntry(h, force, getDb(db), env)]
  /\ UNCHANGED <<db, env, handed, sent, reportedNew, returned, gate, feed>>

\* The actor call and listItems return; the items are sorted, filtered and
\* handed to the store, and the notifier is entered when there is news.
Fetched(s, items, now) ==
  /\ NoneAnswering
  /\ scan[s].pc = "fetch"
  /\ \E sorted \in SortedBy(scan[s].handler, items) :
       LET l == scan[s]
           tag == l.tags[l.ti]
           leads == ExtractLeads(sorted, tag, now, windowHours(l.handler))
           r == addLeadsToDb(db, leads)
           newLeadsFound == r.new
           l1 == [l EXCEPT !.calls = @ + 1,
                           !.inserted = @ + Cardinality(r.db.leads) - Cardinality(db.leads),
                           !.refused = @ \/ Len(newLeadsFound) < Len(leads)]
       IN IF Len(items) = 0
          THEN /\ scan' = [scan EXCEPT ![s] = NextTag([l EXCEPT !.calls = @ + 1])]
               /\ UNCHANGED <<db, handed, reportedNew>>
          ELSE /\ db' = r.db
               /\ reportedNew' = reportedNew + Len(newLeadsFound)
               /\ IF NotifierInvoked(newLeadsFound, env.DISCORD_WEBHOOK)
                  THEN LET arg == NotifierArgument(newLeadsFound, leads)
                           l2 == [l1 EXCEPT !.found = newLeadsFound,
                                            !.batch = SendOrder(l.handler, arg)]
                       IN /\ scan' = [scan EXCEPT ![s] =
                                 IF Len(arg) = 0 THEN EndOfTag(l2)
                                 ELSE [l2 EXCEPT !.pc = "send", !.i = 1]]
                          /\ handed' = [id \in DOMAIN handed |-> handed[id] + CountOf(arg, id)]
                  ELSE /\ scan' = [scan EXCEPT ![s] = EndOfTag([l1 EXCEPT !.found = newLeadsFound])]
                       /\ UNCHANGED handed
  /\ UNCHANGED <<env, sent, returned, gate, feed>>

\* The actor call or listItems throws, or an item is malformed: the tag's
\* catch block logs and the loop goes on.
FetchFailed(s) ==
  /\ NoneAnswering
  /\ scan[s].pc = "fetch"
  /\ scan' = [scan EXCEPT ![s] =
        AfterFailure([@ EXCEPT !.calls = @ + 1,
                               !.failed = IF @ = 0 THEN scan[s].ti ELSE @])]
  /\ UNCHANGED <<db, env, handed, sent, reportedNew, returned, gate, feed>>

\* fetch(webhookUrl, ...) resolves; route.ts then waits before the next lead
Delivered(s) ==
  /\ NoneAnswering
  /\ scan[s].pc = "send"
  /\ LET l == scan[s]
     IN /\ sent' = [sent EXCEPT ![l.batch[l.i].id] = @ + 1]
        /\ scan' = [scan EXCEPT ![s] =
              IF pausesAfterSend(l.handler) THEN [l EXCEPT !.pc = "pause"]
              ELSE AfterAttempt(l)]
  /\ UNCHANGED <<db, env, handed, reportedNew, returned, gate, feed>>

\* fetch(webhookUrl, ...) throws: the catch block logs, and no pause follows
SendFailed(s) ==
  /\ NoneAnswering
  /\ scan[s].pc = "send"
  /\ LET l == scan[s]
     IN /\ sent' = [sent EXCEPT ![l.batch[l.i].id] = @ + 1]
        /\ scan' = [scan EXCEPT ![s] = AfterAttempt([l EXCEPT !.sendFailed = TRUE])]
  /\ UNCHANGED <<db, env, handed, reportedNew, returned, gate, feed>>

\* the setTimeout of route.ts fires
PauseOver(s) ==
  /\ NoneAnswering
  /\ scan[s].pc = "pause"
  /\ scan' = [scan EXCEPT ![s] = AfterAttempt(@)]
  /\ UNCHANGED <<db, env, handed, sent, reportedNew, returned, gate, feed>>

\* the response of a scan has been handed over
Answered(s) ==
  /\ scan[s].pc = "done"
  /\ scan' = [scan EXCEPT ![s] = Idle]
  /\ returned' = IF scan[s].resp.newLeads > 0 THEN returned + scan[s].resp.newLeads ELSE returned
  /\ UNCHANGED <<db, env, handed, sent, reportedNew, gate, feed>>

\* One request at a time: every request, with scans going through slot 1.
Next ==
  \/ Start
  \/ Stop
  \/ \E tag \in Tags : Add(tag)
  \/ \E tag \in Tags : Remove(tag)
  \/ Load
  \/ Invalid
  \/ BadBody
  \/ \E h \in Handlers, force \in BOOLEAN : Scan(1, h, force)
  \/ \E items \in ItemLists : Fetched(1, items, Now0)
  \/ FetchFailed(1)
  \/ Delivered(1)
  \/ SendFailed(1)
  \/ PauseOver(1)
  \/ Answered(1)

Spec == Init /\ [][Next]_vars

\* Two scans in flight at once, interleaved at their awaits, on a store whose
\* tags are set up by add requests; the credential and the webhook are
\* configured, the scans are forced and the clock stands at Now0.  With these
\* settings part_001 differs from part_000 by its sort alone, which route.ts
\* has too.
InitConc ==
  /\ Init
  /\ env = [APIFY_TOKEN |-> TRUE, DISCORD_WEBHOOK |-> TRUE, WATCH_TAGS |-> <<>>]

NextConc ==
  \/ \E tag \in Tags : Add(tag)
  \/ \E s \in ScanIds, h \in {"route", "part_000"} : Scan(s, h, TRUE)
  \/ \E s \in ScanIds, items \in ItemLists : Fetched(s, items, Now0)
  \/ \E s \in ScanIds : FetchFailed(s)
  \/ \E s \in ScanIds : Delivered(s)
  \/ \E s \in ScanIds : SendFailed(s)
  \/ \E s \in ScanIds : PauseOver(s)
  \/ \E s \in ScanIds : Answered(s)

SpecConc == InitConc /\ [][NextConc]_vars

\* A store set up by start and add, and scans without force of the tag whose
\* posts the external source holds in feed; every send is delivered and the
\* clock stands at Now0.
InitAdHoc ==
  /\ db = DefaultDb
  /\ env = [APIFY_TOKEN |-> TRUE, DISCORD_WEBHOOK |-> TRUE, WATCH_TAGS |-> <<>>]
  /\ scan = [s \in ScanIds |-> Idle]
  /\ handed = [id \in AgedLeadIds |-> 0]
  /\ sent = [id \in AgedLeadIds |-> 0]
  /\ reportedNew = 0
  /\ returned = 0
  /\ gate = NoRequest
  /\ feed \in Feeds

NextAdHoc ==
  \/ Start
  \/ Add(<<"a">>)
  \/ \E h \in Handlers : Scan(1, h, FALSE)
  \/ Fetched(1, feed, Now0)
  \/ Delivered(1)
  \/ PauseOver(1)
  \/ Answered(1)

SpecAdHoc == InitAdHoc /\ [][NextAdHoc]_vars

\* Scans without force on a store that start, stop and add requests change
\* while a scan waits.  An await of the handler is over when the awaited
\* call returns or throws, or when the timer fires: the event loop then runs
\* the handler on.
NextSwitch ==
  \/ Start
  \/ Stop
  \/ \E tag \in Tags : Add(tag)
  \/ \E h \in Handlers : Scan(1, h, FALSE)
  \/ \E items \in ItemLists : Fetched(1, items, Now0)
  \/ FetchFailed(1)
  \/ Delivered(1)
  \/ SendFailed(1)
  \/ PauseOver(1)
  \/ Answered(1)

SpecSwitch ==
  /\ InitConc
  /\ [][NextSwitch]_vars
  /\ WF_vars((\E items \in ItemLists : Fetched(1, items, Now0)) \/ FetchFailed(1))
  /\ WF_vars(Delivered(1) \/ SendFailed(1))
  /\ WF_vars(PauseOver(1))

\* ------------------------------------------------- the middleware on its own
\* a request reaches the middleware
Arrive(token, path) ==
  /\ gate' = [token |-> token, path |-> path, decision |-> middleware(token, path)]
  /\ UNCHANGED <<db, env, scan, handed, sent, reportedNew, returned, feed>>

\* the browser follows the redirect it was given, with the same cookie
Follow ==
  /\ gate.decision.kind = "redirect"
  /\ gate' = [token |-> gate.token, path |-> gate.decision.to,
               decision |-> middleware(gate.token, gate.decision.to)]
  /\ UNCHANGED <<db, env, scan, handed, sent, reportedNew, returned, feed>>

NextGate ==
  \/ \E token \in Tokens, path \in Paths : Arrive(token, path)
  \/ Follow

InitGate ==
  /\ Init
  /\ env = [APIFY_TOKEN |-> TRUE, DISCORD_WEBHOOK |-> TRUE, WATCH_TAGS |-> <<>>]

SpecGate == InitGate /\ [][NextGate]_vars

\* ------------------------------------- requests to the monitor route
\* the middleware let the latest request for the monitor route pass
GateOpen == gate.path = MonitorPath /\ gate.decision = PassOn

\* A request for the monitor route goes through the middleware, and its
\* handler, the one of route.ts, runs when the middleware passes it on; the
\* scan then goes on at its awaits.
NextApi ==
  \/ \E token \in Tokens : Arrive(token, MonitorPath)
  \/ GateOpen /\ Start
  \/ GateOpen /\ Stop
  \/ GateOpen /\ \E tag \in Tags : Add(tag)
  \/ GateOpen /\ \E tag \in Tags : Remove(tag)
  \/ GateOpen /\ Load
  \/ GateOpen /\ Invalid
  \/ GateOpen /\ \E force \in BOOLEAN : Scan(1, "route", force)
  \/ \E items \in ItemLists : Fetched(1, items, Now0)
  \/ Delivered(1)
  \/ PauseOver(1)
  \/ Answered(1)

SpecApi == InitGate /\ [][NextApi]_vars

TypeOK ==
  /\ db.isRunning \in BOOLEAN
  /\ \A s \in ScanIds : scan[s].pc \in {"idle", "fetch", "send", "pause", "done"}
  /\ feed \in Feeds

\* ================================================================== claims
InFlight(s) == scan[s].pc \in {"fetch", "send", "pause"}
Quiescent == \A s \in ScanIds : scan[s].pc = "idle"
Range(list) == { list[k] : k \in 1..Len(list) }
StoredIds == { l.id : l \in db.leads }

\* ---------------------------------------------------------------------- C1
C1_Stored ==
  /\ \A l1, l2 \in db.leads : l1.id = l2.id => l1 = l2
  /\ \A id \in LeadIds : handed[id] <= 1
  /\ reportedNew = Cardinality(db.leads)

\* Processing the same items a second time, at the same instant or later,
\* reports nothing new and leaves the leads as they are.  This reads the
\* leads only, and is looked at between requests with no tag monitored and the
\* switch off: every set of leads the system reaches is also reached there.
C1_Rerun ==
  (Quiescent /\ db.monitoredTags = <<>> /\ ~db.isRunning) =>
  \A h \in Handlers, tag \in Tags, items \in ItemLists, now \in Instants, later \in Instants :
    later >= now =>
      \A s1 \in SortedBy(h, items), s2 \in SortedBy(h, items) :
        LET first == addLeadsToDb(db, ExtractLeads(s1, tag, now, windowHours(h)))
            again == addLeadsToDb(first.db, ExtractLeads(s2, tag, later, windowHours(h)))
        IN again.new = <<>> /\ again.db = first.db

C1_Step ==
  /\ db.leads \subseteq db'.leads
  /\ \A id \in LeadIds : handed'[id] > handed[id] => ~HasLead(db.leads, id)

\* C1: a lead id already in the store is never inserted again, never
\* overwritten and never handed to the notifier again; every lead id is handed
\* to the notifier at most once, and running the same items through a scan
\* again reports no new lead and leaves the leads unchanged.
C1_NoLeadTwice == [](C1_Stored /\ C1_Rerun) /\ [][C1_Step]_vars

\* a scan has fetched every tag, the store refused candidates it already
\* held, and the scan reports 0 new leads
C1_Witness ==
  /\ scan[1].pc = "done"
  /\ scan[1].refused
  /\ scan[1].failed = 0
  /\ scan[1].calls = Len(scan[1].tags)
  /\ scan[1].resp = ScanResult(0)
  /\ db.leads # {}

\* ---------------------------------------------------------------------- C2
\* C2: a scan invoked while isRunning is false and force is false or absent
\* answers success false, and calls the external source, inserts a lead or
\* sends a notification never, in every scan handler (the credential being
\* configured).
C2_PausedScanDoesNothing ==
  \A s \in ScanIds :
    (env.APIFY_TOKEN /\ scan[s].closed) =>
      /\ scan[s].pc = "done"
      /\ scan[s].resp.success = "false"
      /\ scan[s].calls = 0
      /\ scan[s].inserted = 0
      /\ scan[s].batch = <<>>

\* ---------------------------------------------------------------------- C3
\* C3: an item whose timestamp is absent or unparseable yields no lead: it is
\* never stored and never notified.
C3_NoLeadWithoutTimestamp ==
  \A p \in Posts :
    DateGetTime(p.timestamp) = NaN =>
      /\ ~HasLead(db.leads, LeadId(p.id))
      /\ handed[LeadId(p.id)] = 0
      /\ sent[LeadId(p.id)] = 0

\* ---------------------------------------------------------------------- C4
C4_Messages ==
  /\ \A id \in LeadIds : sent[id] <= handed[id]
  /\ (\A s \in ScanIds : scan[s].pc \notin {"send", "pause"}) => sent = handed

C4_Step ==
  \A s \in ScanIds :
    (scan[s].pc = "fetch" /\ scan'[s] # scan[s]) =>
      LET newInStore == db'.leads \ db.leads
          invoked == scan'[s].pc = "send"
      IN /\ invoked <=> (newInStore # {} /\ env.DISCORD_WEBHOOK)
         /\ invoked =>
              /\ Range(scan'[s].batch) = newInStore
              /\ Len(scan'[s].batch) = Cardinality(newInStore)
              /\ scan'[s].i = 1

\* C4: for each tag the notifier is invoked iff the store reported a newly
\* inserted lead and a webhook is configured, with exactly the newly inserted
\* leads of that tag, and it sends one message per lead.
C4_NotifyExactlyNew == []C4_Messages /\ [][C4_Step]_vars

\* the notifier is at work on the new lead of a tag whose other candidate
\* the store refused
C4_Witness ==
  /\ scan[1].pc = "send"
  /\ scan[1].ti = 1
  /\ scan[1].refused
  /\ Len(scan[1].batch) = 1
  /\ Cardinality(db.leads) = 2

\* ---------------------------------------------------------------------- C5
\* C5: when a tag fails, every later tag is still fetched and processed, the
\* failing tag adds nothing to the count, and the scan answers success true.
C5_FailingTagIsSkipped ==
  \A s \in ScanIds :
    /\ InFlight(s) =>
         /\ scan[s].ti <= Len(scan[s].tags)
         /\ scan[s].calls = (IF scan[s].pc = "fetch" THEN scan[s].ti - 1 ELSE scan[s].ti)
    /\ (scan[s].pc = "done" /\ scan[s].failed > 0) =>
         /\ scan[s].resp.success = "true"
         /\ scan[s].calls = Len(scan[s].tags)
         /\ scan[s].resp.newLeads = scan[s].inserted

\* the first of two tags failed and the second one brought a lead
C5_Witness ==
  /\ scan[1].pc = "done"
  /\ scan[1].failed = 1
  /\ Len(scan[1].tags) = 2
  /\ scan[1].inserted > 0

\* ---------------------------------------------------------------------- C6
\* C6: the tag list of a scan is the configuration override when there is one
\* and the store's monitoredTags otherwise; when both are empty the scan
\* answers a failure and calls the external source never.
C6_TagResolution ==
  [][\A s \in ScanIds :
      (scan[s].pc = "idle" /\ scan'[s].pc # "idle" /\ env.APIFY_TOKEN /\ ~scan'[s].closed) =>
        LET override == IF env.WATCH_TAGS # <<>> THEN TrimAll(Split(env.WATCH_TAGS)) ELSE <<>>
            expected == IF override # <<>> THEN override ELSE db.monitoredTags
        IN IF expected = <<>>
           THEN /\ scan'[s].pc = "done"
                /\ scan'[s].resp.success # "true"
                /\ scan'[s].calls = 0
           ELSE /\ scan'[s].pc = "fetch"
                /\ scan'[s].tags = expected]_vars

\* ---------------------------------------------------------------------- C7
C7_NothingDone ==
  ~env.APIFY_TOKEN =>
    /\ db.leads = {}
    /\ \A id \in LeadIds : handed[id] = 0 /\ sent[id] = 0
    /\ \A s \in ScanIds :
         /\ scan[s].pc \in {"idle", "done"}
         /\ scan[s].calls = 0
         /\ scan[s].pc = "done" => scan[s].resp = MissingToken

C7_Step == (~env.APIFY_TOKEN /\ scan' # scan) => db' = db

\* C7: without the external-source credential a scan answers a failure before
\* any tag: no external call, no lead stored, no notification, the store
\* document unchanged, whatever isRunning and force are.
C7_MissingCredentialFailsFast == []C7_NothingDone /\ [][C7_Step]_vars

\* a running store with two tags, and the scan answered "Missing APIFY_TOKEN"
C7_Witness ==
  /\ ~env.APIFY_TOKEN
  /\ db.isRunning
  /\ Len(db.monitoredTags) = 2
  /\ scan[1].pc = "done"
  /\ scan[1].resp = MissingToken

\* ---------------------------------------------------------------------- C8
\* C8: the count a completed scan returns is the number of leads that scan
\* inserted, over all its tags, with or without a webhook and whether sends
\* succeed or fail.
C8_CountIsInserted ==
  \A s \in ScanIds :
    (scan[s].pc = "done" /\ scan[s].resp.success = "true") =>
      scan[s].resp.newLeads = scan[s].inserted

\* two leads inserted over two tags, a send failed, and the scan returns 2
C8_Witness ==
  /\ scan[1].pc = "done"
  /\ scan[1].sendFailed
  /\ scan[1].inserted = 2
  /\ Len(scan[1].tags) = 2
  /\ scan[1].resp = ScanResult(2)

\* ---------------------------------------------------------------------- C9
\* C9: with two scans interleaved at their awaits, a lead both fetch is
\* reported new to exactly one of them: the store holds the id once, the
\* returned counts sum to the number of leads added, and the lead is notified
\* once.
C9_OneScanWins ==
  /\ \A l1, l2 \in db.leads : l1.id = l2.id => l1 = l2
  /\ reportedNew = Cardinality(db.leads)
  /\ \A id \in LeadIds : handed[id] <= 1 /\ sent[id] <= 1
  /\ Quiescent =>
       /\ returned = Cardinality(db.leads)
       /\ \A id \in LeadIds : sent[id] = (IF id \in StoredIds THEN 1 ELSE 0)

\* both scans are in flight; the one lead of the store was inserted by scan 1
\* and refused to scan 2
C9_Witness ==
  /\ InFlight(1)
  /\ InFlight(2)
  /\ Cardinality(db.leads) = 1
  /\ scan[1].inserted = 1
  /\ scan[2].refused

\* --------------------------------------------------------------------- C10
\* the decision table of the claim
GateTable(valid, path) ==
  CASE valid /\ path = LoginPath -> Redirect(HomePath)
    [] ~valid /\ path # LoginPath /\ Includes(path, ".") -> PassOn
    [] ~valid /\ path # LoginPath /\ StartsWith(path, ApiPrefix) -> PassOn
    [] ~valid /\ path # LoginPath /\ ~Includes(path, ".") /\ ~StartsWith(path, ApiPrefix)
         -> Redirect(LoginPath)
    [] OTHER -> PassOn

\* C10: the gate's decision is the table above, a function of token validity
\* and path; no request without a valid token passes to a path that is not
\* the login path, has no dot and is not under /api/.
C10_GateDecision ==
  gate.decision.kind # "none" =>
    /\ gate.decision = GateTable(gate.token = "valid", gate.path)
    /\ (gate.token # "valid" /\ gate.decision = PassOn) =>
         \/ gate.path = LoginPath
         \/ Includes(gate.path, ".")
         \/ StartsWith(gate.path, ApiPrefix)

\* a request for /dashboard with a token that does not verify is sent to /login
C10_Witness ==
  /\ gate.token = "invalid"
  /\ gate.path = <<"/", "d", "a", "s", "h", "b", "o", "a", "r", "d">>
  /\ gate.decision = Redirect(LoginPath)

\* --------------------------------------------------------------------- C11
\* While the notifier works through its list, the leads before the current one
\* have had their attempt and the others have not.
C11_InListOrder ==
  \A s \in ScanIds :
    scan[s].pc \in {"send", "pause"} =>
      LET l == scan[s]
          done == IF l.pc = "send" THEN l.i - 1 ELSE l.i
      IN /\ 1 <= l.i /\ l.i <= Len(l.batch)
         /\ \A k \in 1..Len(l.batch) :
              sent[l.batch[k].id] = handed[l.batch[k].id] - (IF k <= done THEN 0 ELSE 1)

\* An attempt, failed or not, is made on the current lead alone and is followed
\* by the next lead of the list; after the last lead the scan goes on, and an
\* answer it then gives is a success.
C11_Step ==
  \A s \in ScanIds :
    (scan[s].pc \in {"send", "pause"} /\ scan'[s] # scan[s]) =>
      LET l == scan[s]
          m == scan'[s]
      IN /\ sent' = IF l.pc = "send" THEN [sent EXCEPT ![l.batch[l.i].id] = @ + 1] ELSE sent
         /\ m.pc = "pause" => (l.pc = "send" /\ m.i = l.i /\ m.batch = l.batch)
         /\ IF l.i < Len(l.batch)
            THEN m.pc \in {"send", "pause"} /\ (m.pc = "send" => (m.i = l.i + 1 /\ m.batch = l.batch))
            ELSE m.pc \in {"pause", "fetch", "done"}
         /\ m.pc = "done" => m.resp = ScanResult(m.total)

\* C11: a failed delivery does not stop the notifier: a call on n leads makes
\* exactly n send attempts, in list order, however many fail, and the failure
\* does not reach the scan.
C11_EveryLeadAttempted == []C11_InListOrder /\ [][C11_Step]_vars

\* the send for the first of two leads failed and the second is being sent
C11_Witness ==
  /\ scan[1].pc = "send"
  /\ scan[1].ti = 1
  /\ scan[1].sendFailed
  /\ scan[1].i = 2
  /\ Len(scan[1].batch) = 2

\* --------------------------------------------------------------------- C12
\* C12: within one notify call a pacing delay separates any two consecutive
\* send attempts, also after a failed attempt, in every notifier: no attempt
\* is followed at once by the attempt on the next lead.
C12_PauseBetweenSends ==
  [][\A s \in ScanIds :
      ~(scan[s].pc = "send" /\ scan'[s].pc = "send" /\ scan'[s].i = scan[s].i + 1
        /\ scan'[s].batch = scan[s].batch)]_vars

\* --------------------------------------------------------------------- C13
C13_Step ==
  /\ Start => db'.isRunning
  /\ Stop => ~db'.isRunning
  /\ ~(Start \/ Stop) => db'.isRunning = db.isRunning
  /\ scan' # scan => (db'.isRunning = db.isRunning /\ db'.monitoredTags = db.monitoredTags)

\* C13: isRunning is what the latest start or stop set, and false before any:
\* add, remove, load, scan and rejected requests leave it alone, and scan
\* leaves monitoredTags alone too.
C13_OnlyStartStopSwitch == ~db.isRunning /\ [][C13_Step]_vars

\* after a start, two adds and a scan that stored a lead the switch is still on
C13_Witness ==
  /\ db.isRunning
  /\ Len(db.monitoredTags) = 2
  /\ db.leads # {}
  /\ scan[1].pc = "done"
  /\ scan[1].handler = "route"

\* --------------------------------------------------------------------- C14
\* C14: a request with an unknown action, an add or remove without a tag, or
\* a body that cannot be read gets an error response and leaves leads,
\* monitoredTags and isRunning as they were.
C14_RejectedChangesNothing ==
  /\ \A body \in RejectedBodies :
       /\ Handle(body, db).db = db
       /\ Handle(body, db).resp = InvalidAction
  /\ InvalidAction.error # "" /\ InvalidAction.success # "true"
  /\ OnThrow(db).db = db
  /\ OnThrow(db).resp.error # "" /\ OnThrow(db).resp.status = 500

\* a store with leads, two tags and the switch on, to which a remove without
\* tag is answered "Invalid Action"
C14_Witness ==
  /\ db.isRunning
  /\ Len(db.monitoredTags) = 2
  /\ db.leads # {}
  /\ Quiescent
  /\ Handle(Body("remove", NoTag), db) = Reply(db, InvalidAction)

\* --------------------------------------------------------------------- C15
\* the ids of a list of leads, in order
IdList(leads) == [k \in 1..Len(leads) |-> leads[k].id]

\* minutes between a post's timestamp and Now0
ElapsedAtNow0(p) == Now0 - p.timestamp.t

FetchStep(s) == scan[s].pc = "fetch" /\ scan'[s] # scan[s]

C15_Step ==
  FetchStep(1) =>
    \A k \in 1..Len(feed) :
      LET p == feed[k]
      IN (DateGetTime(p.timestamp) # NaN /\ ~HasLead(db.leads, LeadId(p.id))) =>
           (HasLead(db'.leads, LeadId(p.id))
              <=> ElapsedAtNow0(p) <= windowHours(scan[1].handler) * 60)

AdHocStep(hs) ==
  (FetchStep(1) /\ db.isRunning /\ scan[1].handler \in hs) =>
    LET within == { LeadId(feed[k].id) : k \in { j \in 1..Len(feed) :
                                                  ElapsedAtNow0(feed[j]) <= 48 * 60 } }
        new == within \ StoredIds
    IN /\ { l.id : l \in db'.leads } = StoredIds \cup new
       /\ IF new = {} THEN scan'[1].pc = "done"
          ELSE /\ scan'[1].pc = "send"
               /\ Range(IdList(scan'[1].batch)) = new
               /\ \A id \in new : handed'[id] = 1

\* every stored lead has had its message once the scans are over
AdHocNotified == Quiescent => \A id \in StoredIds : sent[id] = 1

TimestampOf(id) == (CHOOSE p \in AgedPosts : LeadId(p.id) = id).timestamp.t

\* C18: in every handler the items of a tag are ordered newest first before
\* the filter, so the leads of the tag reach the notifier, and are sent, in
\* non-increasing timestamp order.
C18_NewestFirst ==
  \A s \in ScanIds :
    scan[s].pc \in {"send", "pause"} =>
      \A j, k \in 1..Len(scan[s].batch) :
        j < k => TimestampOf(scan[s].batch[j].id) >= TimestampOf(scan[s].batch[k].id)

\* --------------------------------------------------------------------- C19
\* C19: the age of a post is clamped at zero: a post dated after the current
\* instant is labelled "0m ago", and no label shows a negative number.
C19_AgeNeverNegative ==
  \A l \in db.leads :
    /\ l.postAge.label # "Unknown" => l.postAge.n >= 0
    /\ TimestampOf(l.id) > Now0 => l.postAge = [label |-> "m ago", n |-> 0]

\* --------------------------------------------------------------------- C17
\* a scan answers a failure only when it was refused at the gate or, in
\* part_001, found no tag
C17_Answer ==
  (scan[1].pc = "done" /\ scan[1].resp.success # "true") =>
    \/ scan[1].resp = Paused
    \/ scan[1].resp = NoTagsFound /\ scan[1].handler = "part_001" /\ scan[1].tags = <<>>

\* C17: a scan past the credential check and the running gate eventually
\* answers success true, whatever tags fail and whatever sends fail, each
\* external call and each send eventually returning or failing.
C17_ScanReturns ==
  /\ []C17_Answer
  /\ InFlight(1) ~> (scan[1].pc = "done" /\ scan[1].resp.success = "true")

\* a scan of two tags answered after a failed tag and a failed send
C17_Witness ==
  /\ scan[1].pc = "done"
  /\ Len(scan[1].tags) = 2
  /\ scan[1].failed > 0
  /\ scan[1].sendFailed
  /\ scan[1].resp = ScanResult(1)

\* --------------------------------------------------------------------- C20
\* a handler that has the running gate is at work with the switch now off
StoppedMeanwhile == InFlight(1) /\ checksRunning(scan[1].handler) /\ ~db.isRunning

C20_Step ==
  /\ (db.isRunning /\ ~db'.isRunning) => scan' = scan
  /\ (StoppedMeanwhile /\ FetchStep(1)) =>
       LET new == db'.leads \ db.leads
       IN /\ scan'[1].pc # "done" \/ scan[1].ti = Len(scan[1].tags)
          /\ new # {} => (scan'[1].pc = "send" /\ Range(scan'[1].batch) = new)

\* C20: the running flag is read once, when the scan starts: a stop handled
\* while the scan waits does not stop it, and every remaining tag is still
\* fetched, its new leads stored and notified.
C20_StopDoesNotReachScan ==
  /\ [][C20_Step]_vars
  /\ StoppedMeanwhile ~>
       (scan[1].pc = "done" /\ scan[1].resp.success = "true"
          /\ scan[1].calls = Len(scan[1].tags))

\* a route.ts scan without force sends the lead of its second tag with the
\* switch off: the stop came after the scan had started
C20_Witness ==
  /\ StoppedMeanwhile
  /\ scan[1].handler = "route"
  /\ scan[1].pc = "send"
  /\ scan[1].ti = 2
  /\ scan[1].inserted = 2

\* --------------------------------------------------------------------- C21
ApiPaths == { p \in Paths : StartsWith(p, ApiPrefix) }

\* whatever the token, a path under /api/ is passed on
C21_Open ==
  /\ \A t \in Tokens, p \in ApiPaths : middleware(t, p) = PassOn
  /\ (gate.decision.kind # "none" /\ StartsWith(gate.path, ApiPrefix)) => gate.decision = PassOn

\* a request that changes the store or starts a scan was passed on, and would
\* have been with any other token; the handler itself gets no token
C21_Step ==
  (db' # db \/ (scan[1].pc = "idle" /\ scan'[1].pc # "idle")) =>
    \/ scan[1].pc = "fetch"
    \/ /\ GateOpen
       /\ \A t \in Tokens : middleware(t, gate.path) = gate.decision

\* C21: a path under /api/ is allowed through for a valid, an invalid and an
\* absent token alike, and the monitor handler checks no token: every action
\* has the same effect and response for a caller without a valid token as
\* for one with it.
C21_ApiOpenToAll == []C21_Open /\ [][C21_Step]_vars

\* the latest request came without a token and was passed on; the monitor is
\* started, has a tag and a scan has stored a lead
C21_Witness ==
  /\ gate.token = "absent"
  /\ GateOpen
  /\ db.isRunning
  /\ Len(db.monitoredTags) = 1
  /\ db.leads # {}
  /\ scan[1].pc = "done"
  /\ scan[1].resp = ScanResult(1)

\* --------------------------------------------------------------------- C22
\* the target of a redirect the gate issued is passed on to a caller whose
\* token is valid or not as the redirected caller's was
C22_TargetPasses ==
  gate.decision.kind = "redirect" =>
    \A t \in Tokens :
      Verified(t) = Verified(gate.token) => middleware(t, gate.decision.to) = PassOn

C22_Step == Follow => gate'.decision = PassOn

\* C22: the gate never issues two redirects in a row: the target of its
\* redirect (login for an unverified caller, home for a verified one),
\* requested with the same token validity, is allowed through, so following
\* its redirects ends after one hop at most.
C22_OneHop == []C22_TargetPasses /\ [][C22_Step]_vars

\* a caller with a valid token asked for /login and is being sent home
C22_Witness ==
  /\ gate.token = "valid"
  /\ gate.path = LoginPath
  /\ gate.decision = Redirect(HomePath)

====
